---- MODULE Spec2Model ----
(***************************************************************************)
(* Centrality service: the batch task orchestrator (Celery task            *)
(* calculate_batch_centrality, its result backend and the HTTP endpoints   *)
(* that submit and query it) and the single-request calculate path.        *)
(*                                                                         *)
(* Time is counted in seconds on a clock that advances in steps of         *)
(* TickSeconds.  Identifiers produced by uuid4() are drawn from a counter, *)
(* so that two calls never return the same identifier.                     *)
(***************************************************************************)
EXTENDS Integers, Sequences, FiniteSets, TLC

\* ---- bounds of the model ----
MaxTasks == 1
MaxAlgs == 2
MaxCrashes == 1
MaxTicks == 2
MaxReqs == 2
MaxNodes == 3
MaxEdges == 1
MaxCallers == 2
MaxCloses == 1
MaxThreads == 2
MaxHistory == 2

\* ---- program constants ----
BatchNodeCeiling == 50000
SingleNodeCeiling == 10000
CacheTtl == 3600
result_expires == 3600
task_time_limit == 1800
DbRetentionSeconds == 604800

TickSeconds == task_time_limit
Horizon == MaxTicks * TickSeconds

\* the members of the enumeration the model draws algorithms from
CentralityType == {"degree", "betweenness"}

\* node counts of the submitted networks: at the batch ceiling and over it
BatchNodeCounts == {BatchNodeCeiling, BatchNodeCeiling + 1}

AlgorithmLists == UNION {[1..n -> CentralityType] : n \in 0..MaxAlgs}

\* identifier 0 is never produced by uuid4()
Ids == 0..(2 * MaxTasks)

None == <<>>

VARIABLES
    nextId,     \* source of uuid4() values
    issued,     \* per accepted submission: the task_id returned to the client
                \* and the identifier Celery gave the message
    queue,      \* messages in the broker that are not acknowledged
    backend,    \* Celery result backend: Celery task id -> stored record
    db,         \* table centrality_results: task_id -> results
    worker,     \* the worker process and the locals of the running task
    crashes,    \* number of worker crashes so far
    now,        \* clock, seconds
    resp,       \* the last HTTP response of the batch API
    creq,       \* POST /calculate: the requests in the event loop
    cache,      \* the Redis keys of the cache manager
    call,       \* the last call of a function applied on its own, with its result
    conn,       \* the globals _pool and _redis_client and the coroutines using them
    mon         \* the PerformanceMonitor: its lock, its history, its threads

vars == <<nextId, issued, queue, backend, db, worker, crashes, now, resp, creq, cache, call, conn, mon>>

batchVars == <<nextId, issued, queue, backend, db, worker, crashes, now, resp>>

Put(f, k, v) == [x \in (DOMAIN f) \cup {k} |-> IF x = k THEN v ELSE f[x]]

\* a quotient n / d kept exact
Frac(n, d) == [num |-> n, den |-> d]

Greater(x, y) == x.num * y.den > y.num * x.den

Idle == [pc |-> "idle"]

NoCall == [op |-> "none"]

\* HTTPException raised by a handler's outer `except Exception`
Http500(op, detail) == [op |-> op, code |-> 500, detail |-> detail]

-----------------------------------------------------------------------------
\* Celery result backend

\* backend.store_result: every write renews the key's time to live
store_result(b, id, state, result) ==
    Put(b, id, [status |-> state, result |-> result, expires |-> now + result_expires])

\* keys whose time to live has run out at time t are gone
expire(b, t) ==
    [id \in {k \in DOMAIN b : b[k].expires > t} |-> b[id]]

\* AsyncResult(id).status: an identifier without a record reads as PENDING
AsyncStatus(id) == IF id \in DOMAIN backend THEN backend[id].status ELSE "PENDING"

\* AsyncResult(id).result, also AsyncResult(id).info
AsyncInfo(id) == IF id \in DOMAIN backend THEN backend[id].result ELSE None

AsyncReady(id) == AsyncStatus(id) \in {"SUCCESS", "FAILURE", "REVOKED"}

-----------------------------------------------------------------------------
\* The task body

OkEntry(a) == [algorithm |-> a, results |-> "scores", execution_time |-> 0]

ErrEntry(a) == [algorithm |-> a, error |-> "error", status |-> "failed"]

\* The entry one iteration of the loop leaves in results (lines 78-116):
\* CentralityType(algorithm_str) raises ValueError for a name outside the
\* enumeration, and whatever the body raises ends in the same except clause.
loop_entry(algorithm_str, ok) ==
    IF ok /\ algorithm_str \in CentralityType
    THEN OkEntry(algorithm_str)
    ELSE ErrEntry(algorithm_str)

\* variant: the loop index is used where the count of processed algorithms belongs
ProgressPercentFromIndex(done, total) == ((done - 1) * 100) \div total

\* int((i + 1) / total_algorithms * 100), exact for the totals of the model
ProgressPercent(done, total) == (done * 100) \div total

ProgressMeta(alg, done, total) ==
    [progress |-> ProgressPercent(done, total),
     status |-> <<"Completed", alg>>,
     completed |-> done,
     total |-> total]

Successful(results) ==
    Cardinality({a \in DOMAIN results : "error" \notin DOMAIN results[a]})

ReturnValue(task_id, results, total) ==
    [task_id |-> task_id,
     status |-> "completed",
     results |-> results,
     total_algorithms |-> total,
     successful |-> Successful(results)]

-----------------------------------------------------------------------------
\* POST /calculate/batch

calculate_batch_centrality_endpoint(nodes, algorithms) ==
    IF nodes > BatchNodeCeiling
    THEN /\ resp' = Http500("batch", "400: Network too large")
         /\ UNCHANGED <<nextId, issued, queue, backend, db, worker, crashes, now, creq, cache, call, conn, mon>>
    ELSE /\ nextId + 1 <= 2 * MaxTasks
         /\ LET task_id == nextId
                m == [id |-> nextId + 1,
                      task_id |-> task_id,
                      algorithms |-> algorithms]
            IN  /\ nextId' = nextId + 2
                /\ queue' = queue \cup {m}
                /\ issued' = issued \cup {[task_id |-> task_id, id |-> m.id]}
                /\ resp' = [op |-> "batch", code |-> 200,
                            body |-> [task_id |-> task_id, status |-> "queued"]]
         /\ UNCHANGED <<backend, db, worker, crashes, now, creq, cache, call, conn, mon>>

-----------------------------------------------------------------------------
\* GET /task/{task_id}/status

get_task_status(task_id) ==
    IF AsyncStatus(task_id) = "FAILURE"
    THEN Http500("status", "error reading the task result")
    ELSE [op |-> "status", code |-> 200,
          body |-> [task_id |-> task_id,
                    status |-> AsyncStatus(task_id),
                    result |-> IF AsyncReady(task_id) THEN AsyncInfo(task_id) ELSE None,
                    progress |-> IF "progress" \in DOMAIN AsyncInfo(task_id)
                                 THEN AsyncInfo(task_id).progress
                                 ELSE 0]]

-----------------------------------------------------------------------------
\* The worker: delivery of a message and the steps of calculate_batch_centrality

\* variant: the message is acknowledged on receipt (task_acks_late off)
WorkerReceiveAckEarly(m) ==
    /\ worker.pc = "idle"
    /\ m \in queue
    /\ queue' = queue \ {m}
    /\ worker' = [pc |-> "start", msg |-> m, results |-> <<>>, log |-> <<>>,
                 store_error |-> FALSE]
    /\ backend' = store_result(backend, m.id, "STARTED", [hostname |-> "worker"])
    /\ UNCHANGED <<nextId, issued, db, crashes, now, resp, creq, cache, call, conn, mon>>

\* the worker takes a message; task_track_started records STARTED;
\* task_acks_late leaves the message unacknowledged
WorkerReceive(m) ==
    /\ worker.pc = "idle"
    /\ m \in queue
    /\ worker' = [pc |-> "start", msg |-> m, results |-> <<>>, log |-> <<>>,
                 store_error |-> FALSE]
    /\ backend' = store_result(backend, m.id, "STARTED", [hostname |-> "worker"])
    /\ UNCHANGED <<nextId, issued, queue, db, crashes, now, resp, creq, cache, call, conn, mon>>

StartMeta == [progress |-> 0, status |-> <<"Starting batch calculation">>]

\* lines 56-75 without an exception
BatchStart ==
    /\ worker.pc = "start"
    /\ backend' = store_result(backend, worker.msg.id, "PROGRESS", StartMeta)
    /\ worker' = [worker EXCEPT !.pc = "loop"]
    /\ UNCHANGED <<nextId, issued, queue, db, crashes, now, resp, creq, cache, call, conn, mon>>

\* lines 56-75 raise: in update_state itself, or after it
BatchStartError ==
    /\ worker.pc = "start"
    /\ \E written \in BOOLEAN :
           backend' = IF written
                      THEN store_result(backend, worker.msg.id, "PROGRESS", StartMeta)
                      ELSE backend
    /\ worker' = [worker EXCEPT !.pc = "except"]
    /\ UNCHANGED <<nextId, issued, queue, db, crashes, now, resp, creq, cache, call, conn, mon>>

\* One iteration of the loop over the algorithms, lines 77-116.  The body
\* raises when CentralityParameters(**parameters.get(algorithm_str, {})) is
\* rejected (the request gave no parameters for the algorithm), when the
\* engine raises, or when update_state raises; the outcome is chosen freely.
BatchAlgorithm ==
    /\ worker.pc = "loop"
    /\ Len(worker.log) < Len(worker.msg.algorithms)
    /\ LET i == Len(worker.log)
           total_algorithms == Len(worker.msg.algorithms)
           algorithm_str == worker.msg.algorithms[i + 1]
       IN  \E ok \in BOOLEAN :
               /\ worker' = [worker EXCEPT
                                !.results = Put(@, algorithm_str, loop_entry(algorithm_str, ok)),
                                !.log = Append(@, "error" \notin DOMAIN loop_entry(algorithm_str, ok))]
               /\ backend' = IF "error" \notin DOMAIN loop_entry(algorithm_str, ok)
                             THEN store_result(backend, worker.msg.id, "PROGRESS",
                                      ProgressMeta(algorithm_str, i + 1, total_algorithms))
                             ELSE backend
    /\ UNCHANGED <<nextId, issued, queue, db, crashes, now, resp, creq, cache, call, conn, mon>>

\* lines 118-136: the insert either happens or raises, and the exception is
\* only logged; store_error is the exception the except clause caught
BatchStore ==
    /\ worker.pc = "loop"
    /\ Len(worker.log) = Len(worker.msg.algorithms)
    /\ \E stored \in BOOLEAN :
           /\ db' = IF stored THEN Put(db, worker.msg.task_id, worker.results) ELSE db
           /\ worker' = [worker EXCEPT !.pc = "return", !.store_error = ~stored]
    /\ UNCHANGED <<nextId, issued, queue, backend, crashes, now, resp, creq, cache, call, conn, mon>>

\* variant: a batch with a failed algorithm ends as FAILURE
BatchReturnFailsOnError ==
    /\ worker.pc = "return"
    /\ backend' = store_result(backend, worker.msg.id,
                      IF Successful(worker.results) = Cardinality(DOMAIN worker.results)
                      THEN "SUCCESS" ELSE "FAILURE",
                      ReturnValue(worker.msg.task_id, worker.results,
                                  Len(worker.msg.algorithms)))
    /\ worker' = [worker EXCEPT !.pc = "ack"]
    /\ UNCHANGED <<nextId, issued, queue, db, crashes, now, resp, creq, cache, call, conn, mon>>

\* lines 138-144: the return value becomes the SUCCESS record
BatchReturn ==
    /\ worker.pc = "return"
    /\ backend' = store_result(backend, worker.msg.id, "SUCCESS",
                      ReturnValue(worker.msg.task_id, worker.results,
                                  Len(worker.msg.algorithms)))
    /\ worker' = [worker EXCEPT !.pc = "ack"]
    /\ UNCHANGED <<nextId, issued, queue, db, crashes, now, resp, creq, cache, call, conn, mon>>

\* lines 146-151
BatchExcept ==
    /\ worker.pc = "except"
    /\ backend' = store_result(backend, worker.msg.id, "FAILURE",
                      [error |-> "error", status |-> <<"Task failed">>])
    /\ worker' = [worker EXCEPT !.pc = "raise"]
    /\ UNCHANGED <<nextId, issued, queue, db, crashes, now, resp, creq, cache, call, conn, mon>>

\* line 152: the re-raised exception becomes the FAILURE record
BatchRaise ==
    /\ worker.pc = "raise"
    /\ backend' = store_result(backend, worker.msg.id, "FAILURE",
                      [exc_type |-> "Exception"])
    /\ worker' = [worker EXCEPT !.pc = "ack"]
    /\ UNCHANGED <<nextId, issued, queue, db, crashes, now, resp, creq, cache, call, conn, mon>>

\* task_acks_late: the message is acknowledged after the task has ended
WorkerAck ==
    /\ worker.pc = "ack"
    /\ queue' = queue \ {worker.msg}
    /\ worker' = Idle
    /\ UNCHANGED <<nextId, issued, backend, db, crashes, now, resp, creq, cache, call, conn, mon>>

\* the worker dies; its unacknowledged message stays in the broker
WorkerCrash ==
    /\ worker.pc # "idle"
    /\ crashes < MaxCrashes
    /\ crashes' = crashes + 1
    /\ worker' = Idle
    /\ UNCHANGED <<nextId, issued, queue, backend, db, now, resp, creq, cache, call, conn, mon>>

\* task_time_limit: a task body still running after the limit is killed,
\* recorded as FAILURE and its message acknowledged
TimeLimitExceeded ==
    /\ worker.pc \in {"start", "loop", "except"}
    /\ now < Horizon
    /\ now' = now + TickSeconds
    /\ backend' = [expire(backend, now') EXCEPT ![worker.msg.id] =
                      [status |-> "FAILURE",
                       result |-> [exc_type |-> "TimeLimitExceeded"],
                       expires |-> now' + result_expires]]
    /\ queue' = queue \ {worker.msg}
    /\ worker' = Idle
    /\ UNCHANGED <<nextId, issued, db, crashes, resp, creq, cache, call, conn, mon>>

\* time passes while no task is running; expired backend keys disappear
Tick ==
    /\ worker.pc = "idle"
    /\ now < Horizon
    /\ now' = now + TickSeconds
    /\ backend' = expire(backend, now')
    /\ UNCHANGED <<nextId, issued, queue, db, worker, crashes, resp, creq, cache, call, conn, mon>>

-----------------------------------------------------------------------------
\* POST /calculate.  The handler is a coroutine: the code between two awaits
\* runs without interleaving, the awaits are the cache calls.

Reqs == 1..MaxReqs

\* the networks of the requests, by their node and edge counts
CalcNetworks ==
    {[nodes |-> n, edges |-> e] :
        n \in {0, 1, SingleNodeCeiling, SingleNodeCeiling + 1}, e \in {2}}

\* f"centrality:{algorithm}:{hash(str(network.dict()))}"
cache_key(algorithm, network) == <<"centrality", algorithm, network>>

\* RedisCache._make_key
make_key(key) == <<"networkoracle:">> \o key

\* the whole numbers the model's cached values are drawn from
CacheInts == {123}

\* What the Redis client sends for a value: json.dumps text for the dicts
\* and lists that RedisCache.set serialises, the characters of a string,
\* the digits of a number.
redis_encode(value) ==
    CASE value.type \in {"dict", "list"} -> [dumps |-> value]
      [] value.type = "str" -> [chars |-> value.text]
      [] value.type = "int" -> [chars |-> ToString(value.v)]

\* json.loads of a stored text; a text that is not JSON is returned as the
\* string it is (lines 74-77)
json_loads(text) ==
    IF "dumps" \in DOMAIN text
    THEN text.dumps
    ELSE IF \E n \in CacheInts : ToString(n) = text.chars
    THEN [type |-> "int", v |-> CHOOSE n \in CacheInts : ToString(n) = text.chars]
    ELSE [type |-> "str", text |-> text.chars]

\* a key set without a time to live stays until it is deleted
Live(entry, t) == "expires" \notin DOMAIN entry \/ entry.expires > t

\* what a cache call that raised would hand to its caller
Raised == [raised |-> TRUE]

\* variant: an exception of the Redis client leaves RedisCache.get
RedisCache_get_raising(key, up) ==
    IF ~up
    THEN Raised
    ELSE IF make_key(key) \in DOMAIN cache /\ Live(cache[make_key(key)], now)
    THEN json_loads(cache[make_key(key)].value)
    ELSE None

\* RedisCache.get: the parsed value, or None when the key is absent or has
\* expired, or when Redis raises
RedisCache_get(key, up) ==
    IF up /\ make_key(key) \in DOMAIN cache /\ Live(cache[make_key(key)], now)
    THEN json_loads(cache[make_key(key)].value)
    ELSE None

\* The return value of RedisCache.set.  A value that is no bytes, string or
\* number after the serialisation makes the client raise DataError, which
\* set turns into False like every other exception.
RedisCache_set_returns(value, up) ==
    up /\ value.type \in {"dict", "list", "str", "int"}

\* RedisCache.set: setex when ttl is truthy, set without expiry otherwise
\* (a ttl of None goes the way a ttl of 0 does)
RedisCache_set(c, key, value, ttl, up) ==
    IF RedisCache_set_returns(value, up)
    THEN Put(c, make_key(key),
             IF ttl # 0
             THEN [value |-> redis_encode(value), expires |-> now + ttl]
             ELSE [value |-> redis_encode(value)])
    ELSE c

\* the CentralityAnalysis built from the engine's results
Analysis(algorithm, normalized, network) ==
    [type |-> "CentralityAnalysis",
     algorithm |-> algorithm,
     results |-> [algorithm |-> algorithm, normalized |-> normalized, network |-> network]]

\* NetworkConverter._calculate_density(nodes, edges, graph_type)
calculate_density(nodes, edges, graph_type) ==
    IF nodes <= 1
    THEN Frac(0, 1)
    ELSE IF graph_type \in {"directed", "digraph"}
    THEN Frac(edges, nodes * (nodes - 1))
    ELSE Frac(2 * edges, nodes * (nodes - 1))

\* the density of network_stats, line 73:
\* len(edges) / (len(nodes) * (len(nodes) - 1) / 2) if network.nodes else 0;
\* network.directed is not looked at, and one node makes the divisor 0
network_stats_density(nodes, edges) ==
    IF nodes = 0
    THEN Frac(0, 1)
    ELSE IF nodes * (nodes - 1) = 0
    THEN [raised |-> "ZeroDivisionError"]
    ELSE Frac(2 * edges, nodes * (nodes - 1))

\* The handlers are coroutines of one event loop, and line 56 calls the
\* engine without awaiting: from that call to its return the thread of the
\* loop is inside the engine and resumes no coroutine.
EventLoopFree == \A q \in Reqs : creq[q].pc # "engine"

\* lines 35-49, up to the await of cache_manager.get
calculate_centrality(r, network, algorithm, normalized) ==
    /\ EventLoopFree
    /\ creq[r].pc = "idle"
    /\ IF network.nodes > SingleNodeCeiling
       THEN creq' = [creq EXCEPT ![r] =
                [pc |-> "done", network |-> network, algorithm |-> algorithm,
                 normalized |-> normalized, ops |-> <<>>,
                 resp |-> Http500("calculate", "400: Network too large")]]
       ELSE creq' = [creq EXCEPT ![r] =
                [pc |-> "get", network |-> network, algorithm |-> algorithm,
                 normalized |-> normalized, ops |-> <<"cache_get">>,
                 resp |-> None]]
    /\ UNCHANGED <<cache, call, batchVars, conn, mon>>

\* lines 49-56: the cache answers; on a miss the engine is called.  An
\* exception leaving the cache call would end in the handler's except clause.
CalcAfterGet(r) ==
    /\ EventLoopFree
    /\ creq[r].pc = "get"
    /\ \E up \in BOOLEAN :
         LET cached_result == RedisCache_get(cache_key(creq[r].algorithm, creq[r].network), up)
             ops == IF up THEN creq[r].ops ELSE Append(creq[r].ops, "cache_error")
         IN  IF cached_result = Raised
             THEN creq' = [creq EXCEPT ![r].pc = "done",
                              ![r].ops = ops,
                              ![r].resp = Http500("calculate", "cache error")]
             ELSE IF cached_result # None
             THEN creq' = [creq EXCEPT ![r].pc = "done",
                              ![r].ops = ops,
                              ![r].resp = [op |-> "calculate", code |-> 200,
                                           body |-> cached_result]]
             ELSE creq' = [creq EXCEPT ![r].pc = "engine",
                              ![r].ops = Append(ops, "engine")]
    /\ UNCHANGED <<cache, call, batchVars, conn, mon>>

\* lines 56-78: the engine returns or raises, the analysis is built and
\* cache_manager.set is awaited
CalcEngineReturn(r) ==
    /\ creq[r].pc = "engine"
    /\ \E engine_ok \in BOOLEAN :
         IF \/ ~engine_ok
            \/ "raised" \in DOMAIN network_stats_density(creq[r].network.nodes,
                                                        creq[r].network.edges)
         THEN \* the engine raises, or the density divides by zero
              creq' = [creq EXCEPT ![r].pc = "done",
                          ![r].resp = Http500("calculate", "engine error")]
         ELSE creq' = [creq EXCEPT ![r].pc = "set",
                          ![r].ops = Append(@, "cache_set")]
    /\ UNCHANGED <<cache, call, batchVars, conn, mon>>

\* lines 78-82: cache_manager.set has returned, the analysis is the response
CalcAfterSet(r) ==
    /\ EventLoopFree
    /\ creq[r].pc = "set"
    /\ \E up \in BOOLEAN :
         LET analysis == Analysis(creq[r].algorithm, creq[r].normalized, creq[r].network)
         IN  /\ cache' = RedisCache_set(cache, cache_key(creq[r].algorithm, creq[r].network),
                              analysis, CacheTtl, up)
             /\ creq' = [creq EXCEPT ![r].pc = "done",
                            ![r].ops = IF RedisCache_set_returns(analysis, up)
                                       THEN @ ELSE Append(@, "cache_error"),
                            ![r].resp = [op |-> "calculate", code |-> 200, body |-> analysis]]
    /\ UNCHANGED <<call, batchVars, conn, mon>>

\* the client has its response
CalcRespond(r) ==
    /\ EventLoopFree
    /\ creq[r].pc = "done"
    /\ creq' = [creq EXCEPT ![r] = Idle]
    /\ UNCHANGED <<cache, call, batchVars, conn, mon>>

-----------------------------------------------------------------------------
\* The process-wide connections: the pool of core/database.py and the client
\* of core/redis_client.py.  The callers are coroutines of one event loop, so
\* the code between two awaits is one step.  An object is its number in the
\* order of creation, 0 is None.  base is the number of objects made when the
\* last close ended, epoch counts the begins and ends of closes.

Callers == 1..MaxCallers

Kinds == {"db", "redis"}

\* a coroutine that is not inside a call may start one
Ready(c) == conn.task[c].pc \in {"idle", "returned", "raised"}

\* get_pool up to its first await: the pool that is set is returned, an unset
\* pool leads into init_db, which awaits asyncpg.create_pool
get_pool(c) ==
    /\ Ready(c)
    /\ conn' = [conn EXCEPT !.task[c] =
                  IF conn.obj["db"] = 0
                  THEN [pc |-> "create_pool", kind |-> "db", epoch |-> conn.epoch["db"]]
                  ELSE [pc |-> "returned", kind |-> "db", epoch |-> conn.epoch["db"],
                        ret |-> conn.obj["db"]]]
    /\ UNCHANGED <<cache, creq, call, batchVars, mon>>

\* init_db, lines 20-29: create_pool has made a pool or raised; the pool is
\* assigned to _pool and create_tables is awaited
init_db_create_pool(c) ==
    /\ conn.task[c].pc = "create_pool"
    /\ \E ok \in BOOLEAN :
         IF ok
         THEN conn' = [conn EXCEPT !.made["db"] = @ + 1,
                                   !.obj["db"] = conn.made["db"] + 1,
                                   !.task[c].pc = "create_tables"]
         ELSE conn' = [conn EXCEPT !.task[c].pc = "raised"]
    /\ UNCHANGED <<cache, creq, call, batchVars, mon>>

\* init_db returns into get_pool, which returns what _pool is now;
\* create_tables raises when a statement fails or when _pool is None
init_db_create_tables(c) ==
    /\ conn.task[c].pc = "create_tables"
    /\ \E ok \in BOOLEAN :
         IF ok /\ conn.obj["db"] # 0
         THEN conn' = [conn EXCEPT !.task[c] =
                          [pc |-> "returned", kind |-> "db",
                           epoch |-> conn.task[c].epoch, ret |-> conn.obj["db"]]]
         ELSE conn' = [conn EXCEPT !.task[c].pc = "raised"]
    /\ UNCHANGED <<cache, creq, call, batchVars, mon>>

\* close_db up to `await _pool.close()`
close_db ==
    /\ conn.obj["db"] # 0
    /\ ~conn.closing["db"]
    /\ conn.closes < MaxCloses
    /\ conn' = [conn EXCEPT !.closing["db"] = TRUE,
                            !.epoch["db"] = @ + 1,
                            !.closes = @ + 1]
    /\ UNCHANGED <<cache, creq, call, batchVars, mon>>

\* close_db after the await: _pool = None
close_db_closed ==
    /\ conn.closing["db"]
    /\ conn' = [conn EXCEPT !.closing["db"] = FALSE,
                            !.epoch["db"] = @ + 1,
                            !.obj["db"] = 0,
                            !.base["db"] = conn.made["db"]]
    /\ UNCHANGED <<cache, creq, call, batchVars, mon>>

\* get_redis up to its first await: init_redis assigns the new client to
\* _redis_client before it awaits the ping
get_redis(c) ==
    /\ Ready(c)
    /\ IF conn.obj["redis"] = 0
       THEN conn' = [conn EXCEPT !.made["redis"] = @ + 1,
                                 !.obj["redis"] = conn.made["redis"] + 1,
                                 !.task[c] = [pc |-> "ping", kind |-> "redis",
                                              epoch |-> conn.epoch["redis"]]]
       ELSE conn' = [conn EXCEPT !.task[c] =
                        [pc |-> "returned", kind |-> "redis",
                         epoch |-> conn.epoch["redis"], ret |-> conn.obj["redis"]]]
    /\ UNCHANGED <<cache, creq, call, batchVars, mon>>

\* the ping has answered or raised; get_redis returns what _redis_client is now
init_redis_ping(c) ==
    /\ conn.task[c].pc = "ping"
    /\ \E ok \in BOOLEAN :
         IF ok
         THEN conn' = [conn EXCEPT !.task[c] =
                          [pc |-> "returned", kind |-> "redis",
                           epoch |-> conn.task[c].epoch, ret |-> conn.obj["redis"]]]
         ELSE conn' = [conn EXCEPT !.task[c].pc = "raised"]
    /\ UNCHANGED <<cache, creq, call, batchVars, mon>>

\* close_redis up to `await _redis_client.close()`
close_redis ==
    /\ conn.obj["redis"] # 0
    /\ ~conn.closing["redis"]
    /\ conn.closes < MaxCloses
    /\ conn' = [conn EXCEPT !.closing["redis"] = TRUE,
                            !.epoch["redis"] = @ + 1,
                            !.closes = @ + 1]
    /\ UNCHANGED <<cache, creq, call, batchVars, mon>>

\* close_redis after the await: _redis_client = None
close_redis_closed ==
    /\ conn.closing["redis"]
    /\ conn' = [conn EXCEPT !.closing["redis"] = FALSE,
                            !.epoch["redis"] = @ + 1,
                            !.obj["redis"] = 0,
                            !.base["redis"] = conn.made["redis"]]
    /\ UNCHANGED <<cache, creq, call, batchVars, mon>>

-----------------------------------------------------------------------------
\* PerformanceMonitor.  threading.Lock is not reentrant and has no owner;
\* lock is the thread that acquired it, 0 when it is free.  A thread is the
\* stack of its calls into the monitor; the frame on top is waiting for the
\* lock or inside its `with self.lock` block.

Threads == 1..MaxThreads

MonitorOps ==
    {"record_operation", "get_operation_stats", "get_recent_operations",
     "get_operation_summary", "get_slow_operations", "clear_history",
     "export_metrics"}

Frame(op) == [op |-> op, waiting |-> TRUE]

Top(t) == mon.th[t][Len(mon.th[t])]

\* a thread calls an operation of the monitor and arrives at `with self.lock`
MonitorCall(t, op) ==
    /\ mon.th[t] = <<>>
    /\ mon' = [mon EXCEPT !.th[t] = <<Frame(op)>>]
    /\ UNCHANGED <<cache, creq, call, batchVars, conn>>

\* self.lock.acquire() of the frame on top returns when the lock is free
LockAcquire(t) ==
    /\ mon.th[t] # <<>>
    /\ Top(t).waiting
    /\ mon.lock = 0
    /\ mon' = [mon EXCEPT !.lock = t,
                          !.th[t][Len(mon.th[t])].waiting = FALSE]
    /\ UNCHANGED <<cache, creq, call, batchVars, conn>>

\* export_metrics, line 166: inside its block it calls get_operation_summary
export_metrics_summary(t) ==
    /\ mon.th[t] # <<>>
    /\ ~Top(t).waiting
    /\ Top(t).op = "export_metrics"
    /\ mon' = [mon EXCEPT !.th[t] = Append(@, Frame("get_operation_summary"))]
    /\ UNCHANGED <<cache, creq, call, batchVars, conn>>

\* the block of another operation runs, the lock is released at the end of
\* the block and the call returns; the history is a deque of max_history
MonitorReturn(t) ==
    /\ mon.th[t] # <<>>
    /\ ~Top(t).waiting
    /\ Top(t).op # "export_metrics"
    /\ mon' = [mon EXCEPT
                 !.lock = 0,
                 !.history = CASE Top(t).op = "record_operation" ->
                                      IF @ < MaxHistory THEN @ + 1 ELSE @
                               [] Top(t).op = "clear_history" -> 0
                               [] OTHER -> @,
                 !.th[t] = SubSeq(@, 1, Len(@) - 1)]
    /\ UNCHANGED <<cache, creq, call, batchVars, conn>>

-----------------------------------------------------------------------------
\* CentralityEngine.  A network payload is its list of node identifiers and
\* its list of edges (source, target); a graph is the list of its nodes in
\* insertion order and the set of its undirected edges.  Numbers that are
\* quotients in the code are kept as exact fractions.

NodeNames == <<"a", "b", "c", "d">>

NodeIds == {NodeNames[i] : i \in 1..MaxNodes}

SeqsUpTo(S, n) == UNION {[1..k -> S] : k \in 0..n}

Networks ==
    {[nodes |-> ns, edges |-> es] :
        ns \in SeqsUpTo(NodeIds, MaxNodes), es \in SeqsUpTo(NodeIds \X NodeIds, MaxEdges)}

Range(seq) == {seq[i] : i \in 1..Len(seq)}

\* G.add_node: a node that is in the graph already is not added again
add_node(nodes, id) == IF id \in Range(nodes) THEN nodes ELSE Append(nodes, id)

RECURSIVE add_nodes(_, _)
add_nodes(nodes, ids) ==
    IF ids = <<>> THEN nodes
    ELSE add_nodes(add_node(nodes, Head(ids)), Tail(ids))

\* the endpoints of the edges in the order add_edge meets them
RECURSIVE endpoints(_)
endpoints(edges) ==
    IF edges = <<>> THEN <<>>
    ELSE <<Head(edges)[1], Head(edges)[2]>> \o endpoints(Tail(edges))

\* _networkx_from_data for an undirected network: add_node for every node
\* of the payload, then add_edge for every edge; add_edge adds an endpoint
\* the graph does not have, and an edge given twice is one edge
networkx_from_data(network) ==
    [nodes |-> add_nodes(add_nodes(<<>>, network.nodes), endpoints(network.edges)),
     edges |-> {{e[1], e[2]} : e \in Range(network.edges)}]

\* G.degree(): a self-loop counts twice
degree(G, v) ==
    Cardinality({e \in G.edges : v \in e /\ e # {v}}) + (IF {v} \in G.edges THEN 2 ELSE 0)

\* nx.degree_centrality(G): the score map in the order of G's nodes
degree_centrality(G) ==
    [i \in 1..Len(G.nodes) |->
        <<G.nodes[i],
          IF Len(G.nodes) <= 1 THEN Frac(1, 1)
          ELSE Frac(degree(G, G.nodes[i]), Len(G.nodes) - 1)>>]

\* variant: entries of equal score come out in reverse insertion order
insert_before_equal(sorted, item) ==
    LET k == Cardinality({i \in 1..Len(sorted) : Greater(sorted[i][2], item[2])})
    IN  SubSeq(sorted, 1, k) \o <<item>> \o SubSeq(sorted, k + 1, Len(sorted))

\* one step of the stable sort by descending score: the item goes behind
\* every item whose score is not smaller
insert_sorted(sorted, item) ==
    LET k == Cardinality({i \in 1..Len(sorted) : ~Greater(item[2], sorted[i][2])})
    IN  SubSeq(sorted, 1, k) \o <<item>> \o SubSeq(sorted, k + 1, Len(sorted))

\* sorted(scores.items(), key=lambda x: x[1], reverse=True)
RECURSIVE sorted_by_score(_, _)
sorted_by_score(done, items) ==
    IF items = <<>> THEN done
    ELSE sorted_by_score(insert_sorted(done, Head(items)), Tail(items))

\* variant: the 1-based rank is used where the enumeration index belongs
percentile_from_rank(n, rank) == Frac((n - (rank + 1)) * 100, n)

\* (len(sorted_nodes) - rank) / len(sorted_nodes) * 100, rank counted from 0
percentile(n, rank) == Frac((n - rank) * 100, n)

\* _scores_to_results
scores_to_results(scores) ==
    LET sorted_nodes == sorted_by_score(<<>>, scores)
    IN  [i \in 1..Len(sorted_nodes) |->
            [node_id |-> sorted_nodes[i][1],
             centrality_score |-> sorted_nodes[i][2],
             rank |-> i,
             percentile |-> percentile(Len(sorted_nodes), i - 1)]]

\* CentralityEngine.calculate_centrality: the graph is built, the function
\* of the algorithm is looked up, its scores are formatted; an algorithm
\* without a function raises ValueError.  Scores are modelled for degree.
CentralityEngine_calculate_centrality(network, algorithm) ==
    LET G == networkx_from_data(network)
    IN  IF algorithm \notin CentralityType
        THEN [raised |-> "ValueError",
              detail |-> <<"Algorithm", algorithm, "not implemented">>]
        ELSE CASE algorithm = "degree" ->
                 [G |-> G, results |-> scores_to_results(degree_centrality(G))]

\* handler.do_POST, lines 57-70: the entries in the order of the score map,
\* sorted by descending score, then rank and percentile by position
do_POST_results(centrality) ==
    LET results == sorted_by_score(<<>>, centrality)
    IN  [i \in 1..Len(results) |->
            [node_id |-> results[i][1],
             centrality_score |-> results[i][2],
             rank |-> i,
             percentile |-> percentile(Len(results), i - 1)]]

\* the members of the enumeration CentralityType
AllCentralityTypes ==
    {"degree", "betweenness", "closeness", "eigenvector", "katz", "pagerank",
     "bonacich_power", "hits_hubs", "hits_authorities", "leverage", "load",
     "harmonic", "subgraph", "alpha", "communicability_betweenness"}

\* how a library computation ends: with scores, with the failure of a power
\* iteration, or with another exception
Outcomes == {"ok", "PowerIterationFailedConvergence", "Exception"}

\* CentralityParameters.  alpha and beta are in tenths; 0 stands for both
\* None and 0.0, which `params.alpha or 0.1` does not tell apart.
Params ==
    [normalized : BOOLEAN, alpha : {0, 5}, beta : {0}, weight : {"None"},
     max_iter : {100}, tolerance : {"1e-6"}]

\* a library routine called with arguments: its scores, or what it raises
Run(routine, args, outcome) ==
    IF outcome = "ok"
    THEN [scores |-> [by |-> routine, args |-> args]]
    ELSE [raised |-> outcome]

\* `x or d` for a number
Or(x, d) == IF x = 0 THEN d ELSE x

engine_degree_centrality(params, o) ==
    IF params.normalized
    THEN Run("nx.degree_centrality", <<>>, o)
    ELSE Run("G.degree", <<>>, o)

engine_betweenness_centrality(params, o) ==
    Run("nx.betweenness_centrality",
        [weight |-> params.weight, normalized |-> params.normalized], o)

engine_closeness_centrality(params, o) == Run("nx.closeness_centrality", <<>>, o)

\* only the failure of the power iteration is caught; the Katz call of the
\* handler is outside any try
engine_eigenvector_centrality(params, first, second) ==
    LET r == Run("nx.eigenvector_centrality",
                 [max_iter |-> params.max_iter, tol |-> params.tolerance], first)
    IN  IF first = "PowerIterationFailedConvergence"
        THEN Run("nx.katz_centrality",
                 [alpha |-> 1, max_iter |-> params.max_iter, tol |-> params.tolerance],
                 second)
        ELSE r

engine_katz_centrality(params, o) ==
    Run("nx.katz_centrality",
        [alpha |-> Or(params.alpha, 1), beta |-> Or(params.beta, 10),
         max_iter |-> params.max_iter, tol |-> params.tolerance], o)

engine_pagerank_centrality(params, o) ==
    Run("nx.pagerank",
        [alpha |-> Or(params.alpha, 85), max_iter |-> params.max_iter,
         tol |-> params.tolerance], o)

engine_bonacich_power_centrality(params, o) ==
    Run("nx.bonacich_power_centrality",
        [alpha |-> Or(params.alpha, 1), beta |-> Or(params.beta, 10),
         max_iter |-> params.max_iter, tol |-> params.tolerance], o)

engine_hits_hubs_centrality(params, o) ==
    Run("nx.hits.hubs", [max_iter |-> params.max_iter, tol |-> params.tolerance], o)

engine_hits_authorities_centrality(params, o) ==
    Run("nx.hits.authorities", [max_iter |-> params.max_iter, tol |-> params.tolerance], o)

engine_leverage_centrality(params, o) == Run("leverage", <<>>, o)

\* load is computed as betweenness, without the weight
engine_load_centrality(params, o) ==
    Run("nx.betweenness_centrality", [normalized |-> params.normalized], o)

engine_harmonic_centrality(params, o) == Run("nx.harmonic_centrality", <<>>, o)

\* variant: the failure of the matrix exponential is not caught
engine_subgraph_centrality_uncaught(params, first, second) ==
    Run("diag(np.exp(A))", <<>>, first)

\* any exception of the primary computation leads to the degree method
engine_subgraph_centrality(params, first, second) ==
    IF first = "ok"
    THEN Run("diag(np.exp(A))", <<>>, first)
    ELSE engine_degree_centrality(params, second)

engine_alpha_centrality(params, first, second) ==
    IF first = "ok"
    THEN Run("nx.alpha_centrality", [alpha |-> Or(params.alpha, 1)], first)
    ELSE engine_katz_centrality(params, second)

engine_communicability_betweenness_centrality(params, first, second) ==
    IF first = "ok"
    THEN Run("communicability", <<>>, first)
    ELSE engine_betweenness_centrality(params, second)

\* self.algorithms: the method of each kind, applied to the parameters.
\* first and second are the outcomes of the first and of the second library
\* computation the method starts.
algo_func(algorithm, params, first, second) ==
    CASE algorithm = "degree" -> engine_degree_centrality(params, first)
      [] algorithm = "betweenness" -> engine_betweenness_centrality(params, first)
      [] algorithm = "closeness" -> engine_closeness_centrality(params, first)
      [] algorithm = "eigenvector" -> engine_eigenvector_centrality(params, first, second)
      [] algorithm = "katz" -> engine_katz_centrality(params, first)
      [] algorithm = "pagerank" -> engine_pagerank_centrality(params, first)
      [] algorithm = "bonacich_power" -> engine_bonacich_power_centrality(params, first)
      [] algorithm = "hits_hubs" -> engine_hits_hubs_centrality(params, first)
      [] algorithm = "hits_authorities" -> engine_hits_authorities_centrality(params, first)
      [] algorithm = "leverage" -> engine_leverage_centrality(params, first)
      [] algorithm = "load" -> engine_load_centrality(params, first)
      [] algorithm = "harmonic" -> engine_harmonic_centrality(params, first)
      [] algorithm = "subgraph" -> engine_subgraph_centrality(params, first, second)
      [] algorithm = "alpha" -> engine_alpha_centrality(params, first, second)
      [] algorithm = "communicability_betweenness" ->
             engine_communicability_betweenness_centrality(params, first, second)

\* calculate_centrality around the method: what the method raises is logged
\* and raised again unchanged
EngineMethod(algorithm, params, first, second) ==
    /\ call = NoCall
    /\ call' = [op |-> "algo_func", algorithm |-> algorithm, params |-> params,
                first |-> first, second |-> second,
                out |-> algo_func(algorithm, params, first, second)]
    /\ UNCHANGED <<cache, creq, batchVars, conn, mon>>

\* the names handed to the engine and to the loop: one of the enumeration
\* and one outside it
AlgorithmNames == {"degree", "unknown"}

EngineCalculate(network, algorithm) ==
    /\ call = NoCall
    /\ call' = [op |-> "calculate_centrality", network |-> network, algorithm |-> algorithm,
                out |-> CentralityEngine_calculate_centrality(network, algorithm)]
    /\ UNCHANGED <<cache, creq, batchVars, conn, mon>>

\* the cache key the calculate handler builds for a request
CacheKeyOf(network, algorithm) ==
    /\ call = NoCall
    /\ call' = [op |-> "cache_key", network |-> network, algorithm |-> algorithm,
                key |-> cache_key(algorithm, network)]
    /\ UNCHANGED <<cache, creq, batchVars, conn, mon>>

\* one iteration of the task's loop for a name
LoopBody(algorithm_str, ok) ==
    /\ call = NoCall
    /\ call' = [op |-> "loop_body", algorithm_str |-> algorithm_str, ok |-> ok,
                entry |-> loop_entry(algorithm_str, ok)]
    /\ UNCHANGED <<cache, creq, batchVars, conn, mon>>

\* CentralityEngine.get_algorithm_info: the dictionary of the five kinds
\* that have an entry, and the default dictionary for the others
engine_get_algorithm_info(algorithm) ==
    CASE algorithm = "degree" ->
             [name |-> "Degree Centrality", complexity |-> "O(n)",
              description |-> "Measures the number of connections a node has",
              use_cases |-> <<"Identifying popular nodes", "Network connectivity analysis">>]
      [] algorithm = "betweenness" ->
             [name |-> "Betweenness Centrality", complexity |-> "O(n^3)",
              description |-> "Measures how often a node lies on shortest paths",
              use_cases |-> <<"Finding bridges", "Traffic flow analysis">>]
      [] algorithm = "closeness" ->
             [name |-> "Closeness Centrality", complexity |-> "O(n^2)",
              description |-> "Measures how close a node is to all other nodes",
              use_cases |-> <<"Information spreading", "Network efficiency">>]
      [] algorithm = "eigenvector" ->
             [name |-> "Eigenvector Centrality", complexity |-> "O(n^2)",
              description |-> "Measures influence based on connections to influential nodes",
              use_cases |-> <<"Influence analysis", "Social network analysis">>]
      [] algorithm = "pagerank" ->
             [name |-> "PageRank", complexity |-> "O(n^2)",
              description |-> "Google's algorithm for ranking web pages",
              use_cases |-> <<"Web ranking", "Importance scoring">>]
      [] OTHER ->
             [name |-> <<"CentralityType", algorithm>>, complexity |-> "O(n^2)",
              description |-> "Advanced centrality measure",
              use_cases |-> <<"Network analysis">>]

\* the fields of AlgorithmInfo; none has a default
AlgorithmInfoFields ==
    {"name", "description", "complexity", "use_cases", "parameters",
     "limitations", "references"}

\* AlgorithmInfo(name=algorithm, **info): a keyword given twice is a
\* TypeError of the call, a required field left out a ValidationError
AlgorithmInfo(algorithm, info) ==
    IF "name" \in DOMAIN info
    THEN [raised |-> "TypeError"]
    ELSE IF ~(AlgorithmInfoFields \subseteq ({"name"} \cup DOMAIN info))
    THEN [raised |-> "ValidationError"]
    ELSE [f \in {"name"} \cup DOMAIN info |->
             IF f = "name" THEN algorithm ELSE info[f]]

\* GET /algorithms/{algorithm}
get_algorithm_info(algorithm) ==
    AlgorithmInfo(algorithm, engine_get_algorithm_info(algorithm))

\* GET /algorithms: the loop over the enumeration ends at the first
\* construction that raises
get_available_algorithms ==
    IF \E a \in AllCentralityTypes : "raised" \in DOMAIN get_algorithm_info(a)
    THEN LET a == CHOOSE a \in AllCentralityTypes : "raised" \in DOMAIN get_algorithm_info(a)
         IN  get_algorithm_info(a)
    ELSE [algorithms |-> {get_algorithm_info(a) : a \in AllCentralityTypes}]

AlgorithmInfoOf(algorithm) ==
    /\ call = NoCall
    /\ call' = [op |-> "get_algorithm_info", algorithm |-> algorithm,
                out |-> get_algorithm_info(algorithm)]
    /\ UNCHANGED <<cache, creq, batchVars, conn, mon>>

AvailableAlgorithms ==
    /\ call = NoCall
    /\ call' = [op |-> "get_available_algorithms", out |-> get_available_algorithms]
    /\ UNCHANGED <<cache, creq, batchVars, conn, mon>>

GraphTypes == {"directed", "undirected"}

\* the validator's density metric for a network of the given counts
ValidatorDensity(nodes, edges, graph_type) ==
    /\ call = NoCall
    /\ call' = [op |-> "calculate_density", nodes |-> nodes, edges |-> edges,
                directed |-> (graph_type = "directed"),
                out |-> calculate_density(nodes, edges, graph_type)]
    /\ UNCHANGED <<cache, creq, batchVars, conn, mon>>

\* the density in the network_stats of a calculate response
StatsDensity(nodes, edges, directed) ==
    /\ call = NoCall
    /\ call' = [op |-> "network_stats", nodes |-> nodes, edges |-> edges,
                directed |-> directed,
                out |-> network_stats_density(nodes, edges)]
    /\ UNCHANGED <<cache, creq, batchVars, conn, mon>>

\* the score maps given to the formatters: distinct nodes in insertion
\* order, each with a score
ScoreValues == {Frac(0, 1), Frac(1, 2), Frac(1, 1)}

ScoreMaps ==
    {m \in SeqsUpTo(NodeIds \X ScoreValues, MaxNodes) :
        \A i, j \in 1..Len(m) : i # j => m[i][1] # m[j][1]}

FormatScores(scores) ==
    /\ call = NoCall
    /\ call' = [op |-> "scores_to_results", scores |-> scores,
                results |-> scores_to_results(scores)]
    /\ UNCHANGED <<cache, creq, batchVars, conn, mon>>

FormatVercel(scores) ==
    /\ call = NoCall
    /\ call' = [op |-> "do_POST", scores |-> scores,
                results |-> do_POST_results(scores)]
    /\ UNCHANGED <<cache, creq, batchVars, conn, mon>>

-----------------------------------------------------------------------------
\* The cache manager called on its own

CacheKeys == {<<"k1">>, <<"k2">>}

\* a time to live of 0 stands for the default None as well: `if ttl` takes
\* the same branch for both
TtlValues == {0, TickSeconds, CacheTtl}

CacheValues ==
    {[type |-> "dict", items |-> "scores"],
     [type |-> "str", text |-> "plain"],
     [type |-> "str", text |-> "123"],
     [type |-> "int", v |-> 123],
     Analysis("degree", TRUE, [nodes |-> 0, edges |-> 2])}

\* await cache_manager.set(key, value, ttl)
CacheSet(key, value, ttl, up) ==
    /\ cache' = RedisCache_set(cache, key, value, ttl, up)
    /\ call' = [op |-> "set", key |-> key, value |-> value, ttl |-> ttl,
                up |-> up, at |-> now]
    /\ UNCHANGED <<creq, batchVars, conn, mon>>

\* await cache_manager.get(key)
CacheGet(key, up) ==
    /\ call' = [op |-> "get", key |-> key, up |-> up, at |-> now,
                result |-> RedisCache_get(key, up)]
    /\ UNCHANGED <<cache, creq, batchVars, conn, mon>>

-----------------------------------------------------------------------------
Init ==
    /\ nextId = 1
    /\ issued = {}
    /\ queue = {}
    /\ backend = <<>>
    /\ db = <<>>
    /\ worker = Idle
    /\ crashes = 0
    /\ now = 0
    /\ resp = [op |-> "none", code |-> 0]
    /\ creq = [r \in Reqs |-> Idle]
    /\ cache = <<>>
    /\ call = NoCall
    /\ conn = [obj |-> [k \in Kinds |-> 0],
               made |-> [k \in Kinds |-> 0],
               base |-> [k \in Kinds |-> 0],
               epoch |-> [k \in Kinds |-> 0],
               closing |-> [k \in Kinds |-> FALSE],
               closes |-> 0,
               task |-> [c \in Callers |-> Idle]]
    /\ mon = [lock |-> 0,
              history |-> 0,
              th |-> [t \in Threads |-> <<>>]]

SubmitBatch ==
    \E nodes \in BatchNodeCounts, algorithms \in AlgorithmLists :
        calculate_batch_centrality_endpoint(nodes, algorithms)

Receive == \E m \in queue : WorkerReceive(m)

Next ==
    \/ SubmitBatch
    \/ Receive
    \/ BatchStart
    \/ BatchStartError
    \/ BatchAlgorithm
    \/ BatchStore
    \/ BatchReturn
    \/ BatchExcept
    \/ BatchRaise
    \/ WorkerAck
    \/ WorkerCrash
    \/ TimeLimitExceeded
    \/ Tick

Spec == Init /\ [][Next]_vars

\* Valid submissions and the worker on working infrastructure: no exception
\* outside the loop and no task running into the time limit.
SubmitValid ==
    \E algorithms \in AlgorithmLists :
        calculate_batch_centrality_endpoint(BatchNodeCeiling, algorithms)

FairNext ==
    \/ SubmitValid
    \/ Receive
    \/ BatchStart
    \/ BatchAlgorithm
    \/ BatchStore
    \/ BatchReturn
    \/ WorkerAck
    \/ WorkerCrash
    \/ Tick

WorkerStep ==
    \/ Receive
    \/ BatchStart
    \/ BatchAlgorithm
    \/ BatchStore
    \/ BatchReturn
    \/ WorkerAck

FairSpec == Init /\ [][FairNext]_vars /\ WF_vars(WorkerStep)

Calculate ==
    \E r \in Reqs, network \in CalcNetworks, algorithm \in CentralityType,
       normalized \in BOOLEAN :
        calculate_centrality(r, network, algorithm, normalized)

AfterGet == \E r \in Reqs : CalcAfterGet(r)

AfterSet == \E r \in Reqs : CalcAfterSet(r)

Respond == \E r \in Reqs : CalcRespond(r)

EngineReturn == \E r \in Reqs : CalcEngineReturn(r)

CalcNext ==
    \/ Calculate
    \/ AfterGet
    \/ EngineReturn
    \/ AfterSet
    \/ Respond

CalcSpec == Init /\ [][CalcNext]_vars

SetCache ==
    \E key \in CacheKeys, value \in CacheValues, ttl \in TtlValues, up \in BOOLEAN :
        CacheSet(key, value, ttl, up)

GetCache == \E key \in CacheKeys, up \in BOOLEAN : CacheGet(key, up)

CacheNext ==
    \/ SetCache
    \/ GetCache
    \/ Tick

CacheSpec == Init /\ [][CacheNext]_vars

\* a function is applied on its own once; the test comes before the choice
\* of the network
Engine ==
    /\ call = NoCall
    /\ \E network \in Networks, algorithm \in AlgorithmNames :
          EngineCalculate(network, algorithm)

KeyOf ==
    /\ call = NoCall
    /\ \E network \in Networks, algorithm \in CentralityType :
          CacheKeyOf(network, algorithm)

Loop == \E algorithm_str \in AlgorithmNames, ok \in BOOLEAN : LoopBody(algorithm_str, ok)

Validator ==
    \E nodes \in 0..MaxNodes, edges \in 0..(MaxEdges + 1), graph_type \in GraphTypes :
        ValidatorDensity(nodes, edges, graph_type)

Stats ==
    \E nodes \in 0..MaxNodes, edges \in 0..(MaxEdges + 1), directed \in BOOLEAN :
        StatsDensity(nodes, edges, directed)

Method ==
    \E algorithm \in AllCentralityTypes, params \in Params,
       first \in Outcomes, second \in Outcomes :
        EngineMethod(algorithm, params, first, second)

Info == \E algorithm \in AllCentralityTypes : AlgorithmInfoOf(algorithm)

EngineNext ==
    \/ Info
    \/ AvailableAlgorithms
    \/ Method
    \/ Engine
    \/ KeyOf
    \/ Loop
    \/ Validator
    \/ Stats

EngineSpec == Init /\ [][EngineNext]_vars

ConnNext ==
    \/ \E c \in Callers : get_pool(c)
    \/ \E c \in Callers : init_db_create_pool(c)
    \/ \E c \in Callers : init_db_create_tables(c)
    \/ close_db
    \/ close_db_closed
    \/ \E c \in Callers : get_redis(c)
    \/ \E c \in Callers : init_redis_ping(c)
    \/ close_redis
    \/ close_redis_closed

ConnSpec == Init /\ [][ConnNext]_vars

MonitorNext ==
    \/ \E t \in Threads, op \in MonitorOps : MonitorCall(t, op)
    \/ \E t \in Threads : LockAcquire(t)
    \/ \E t \in Threads : export_metrics_summary(t)
    \/ \E t \in Threads : MonitorReturn(t)

MonitorSpec == Init /\ [][MonitorNext]_vars

Format == \E scores \in ScoreMaps : FormatScores(scores)

Vercel == \E scores \in ScoreMaps : FormatVercel(scores)

FormatNext ==
    \/ Format
    \/ Vercel

FormatSpec == Init /\ [][FormatNext]_vars

-----------------------------------------------------------------------------
\* The task states of the specification in terms of the Celery states

TaskStatus(id) ==
    CASE AsyncStatus(id) = "PENDING" -> "queued"
      [] AsyncStatus(id) \in {"STARTED", "PROGRESS"} -> "running"
      [] AsyncStatus(id) = "SUCCESS" -> "completed"
      [] AsyncStatus(id) = "FAILURE" -> "failed"

CeleryIds == {id \in Ids : id > 0 /\ id % 2 = 0}

InQueue(id) == \E m \in queue : m.id = id

\* the instant the record of id was written
StoredAt(id) == backend[id].expires - result_expires

-----------------------------------------------------------------------------
\* C1: every task follows queued -> running -> {completed, failed}; the only
\* status changes are queued->running, running->completed and
\* running->failed, and what a query reports of a completed or failed task
\* (status and result) never changes again.
C1_StateMachine ==
    [][\A t \in issued :
          /\ \/ TaskStatus(t.id)' = TaskStatus(t.id)
             \/ <<TaskStatus(t.id), TaskStatus(t.id)'>> \in
                    {<<"queued", "running">>, <<"running", "completed">>,
                     <<"running", "failed">>}
          /\ TaskStatus(t.id) \in {"completed", "failed"}
                => get_task_status(t.id)' = get_task_status(t.id)]_vars

C3_StatusUnderReturnedId ==
    \A t \in issued :
        AsyncStatus(t.id) \in {"SUCCESS", "FAILURE"} =>
            /\ get_task_status(t.task_id).code = 200
            /\ get_task_status(t.task_id).body.status = AsyncStatus(t.id)
            /\ get_task_status(t.task_id).body.result = AsyncInfo(t.id)

\* C4: every algorithm of the list is executed whatever failed before it,
\* and the outcome of each is recorded in its own result entry.
C4_EachOutcomeRecorded ==
    worker.pc \in {"loop", "return"} =>
        /\ worker.pc = "return" => Len(worker.log) = Len(worker.msg.algorithms)
        /\ \A k \in 1..Len(worker.log) :
              LET a == worker.msg.algorithms[k]
              IN  /\ a \in DOMAIN worker.results
                  /\ ("error" \in DOMAIN worker.results[a]) = ~worker.log[k]

C6_OneEntryPerAlgorithm ==
    \A t \in issued :
        AsyncStatus(t.id) = "SUCCESS" =>
            Cardinality(DOMAIN AsyncInfo(t.id).results) = AsyncInfo(t.id).total_algorithms

C8_UnknownIdFails ==
    \A id \in Ids :
        \/ \E t \in issued : t.task_id = id /\ (InQueue(t.id) \/ t.id \in DOMAIN backend)
        \/ get_task_status(id).code = 404

\* C9: from the completion of a task until its expiry, seven days later,
\* get_task_status of the task returns the same answer as long as nothing
\* else operates on the task.
C9_RepeatedQuery ==
    [][\A t \in issued :
          (/\ AsyncStatus(t.id) = "SUCCESS"
           /\ UNCHANGED <<worker, queue>>
           /\ now' < StoredAt(t.id) + DbRetentionSeconds)
              => get_task_status(t.id)' = get_task_status(t.id)]_vars

\* C10: a network of more than 10,000 nodes on the calculate path is
\* refused with the size-ceiling error (HTTP 400 or 413), and nothing is
\* looked up, computed or cached for it.
C10_TooLargeRefused ==
    \A r \in Reqs :
        (creq[r].pc = "done" /\ creq[r].network.nodes > SingleNodeCeiling) =>
            /\ creq[r].resp.code \in {400, 413}
            /\ creq[r].ops = <<>>

\* C11: a batch submission of more than 50,000 nodes is refused with the
\* size-ceiling error (HTTP 400 or 413, not the generic 500), and the
\* refusal allocates no task identifier and enqueues nothing.
C11_TooLargeBatchRefused ==
    [][(resp' # resp /\ resp'.op = "batch" /\ resp'.code # 200) =>
          /\ resp'.code \in {400, 413}
          /\ UNCHANGED <<nextId, issued, queue>>]_vars

\* C12: with Redis answering, a get right after set(k, r, ttl) returns a
\* value equal to r, and once a positive ttl has elapsed the get reports a
\* miss.
C12_CacheRoundTrip ==
    (call.op = "set" /\ call.up) =>
        /\ now = call.at => RedisCache_get(call.key, TRUE) = call.value
        /\ (call.ttl > 0 /\ now >= call.at + call.ttl)
               => RedisCache_get(call.key, TRUE) = None

SameElements(s, t) ==
    /\ Len(s) = Len(t)
    /\ \A x \in Range(s) \cup Range(t) :
          Cardinality({i \in 1..Len(s) : s[i] = x}) = Cardinality({i \in 1..Len(t) : t[i] = x})

\* C13: a network with the same nodes and the same edges as the one of a
\* request, listed in another order, gets the same cache key for the same
\* algorithm.
C13_FingerprintStable ==
    call.op = "cache_key" =>
        \A other \in Networks :
            (SameElements(other.nodes, call.network.nodes)
                /\ SameElements(other.edges, call.network.edges))
              => cache_key(call.algorithm, other) = call.key

\* the request r as the cache key should tell it from others
RequestOf(r) == <<creq[r].algorithm, creq[r].normalized, creq[r].network>>

\* C14: requests that differ in algorithm, parameters or graph content have
\* different cache keys, and a response never carries a result computed
\* for another algorithm, parameter bundle or graph.
C14_KeyCoversRequest ==
    /\ \A r1, r2 \in Reqs :
          (creq[r1].pc \in {"get", "set"} /\ creq[r2].pc \in {"get", "set"}
              /\ RequestOf(r1) # RequestOf(r2))
            => cache_key(creq[r1].algorithm, creq[r1].network)
                   # cache_key(creq[r2].algorithm, creq[r2].network)
    /\ \A r \in Reqs :
          (creq[r].pc = "done" /\ creq[r].resp.code = 200)
            => creq[r].resp.body.results =
                   [algorithm |-> creq[r].algorithm, normalized |-> creq[r].normalized,
                    network |-> creq[r].network]

\* C15: a calculate request whose cache call failed (on get or on set) is
\* answered with the freshly computed result; it ends as an error only when
\* the computation itself raised.
C15_CacheFailureTolerated ==
    \A r \in Reqs :
        (creq[r].pc = "done" /\ "cache_error" \in Range(creq[r].ops)) =>
            /\ "engine" \in Range(creq[r].ops)
            /\ \/ /\ creq[r].resp.code = 200
                  /\ creq[r].resp.body =
                         Analysis(creq[r].algorithm, creq[r].normalized, creq[r].network)
               \/ /\ creq[r].resp.code = 500
                  /\ creq[r].resp.detail = "engine error"

\* C15 witness: both cache calls of a request failed and its response is
\* the computed analysis
C15_Witness ==
    \E r \in Reqs :
        /\ creq[r].pc = "done"
        /\ creq[r].ops = <<"cache_get", "cache_error", "engine", "cache_set", "cache_error">>
        /\ creq[r].resp.code = 200

\* C16: when the insert of the results has failed, the record the task
\* leaves (its result and its status) tells so.
C16_StoreFailureRecorded ==
    (worker.pc = "ack" /\ worker.store_error) =>
        \/ AsyncStatus(worker.msg.id) = "FAILURE"
        \/ "error" \in DOMAIN AsyncInfo(worker.msg.id)
        \/ "storage_error" \in DOMAIN AsyncInfo(worker.msg.id)

\* position of a node in a score map
Pos(scores, id) == CHOOSE i \in 1..Len(scores) : scores[i][1] = id

C18_RankPercentile ==
    call.op = "scores_to_results" =>
        LET res == call.results
            N == Len(call.results)
        IN  /\ N = Len(call.scores)
            /\ {res[i].rank : i \in 1..N} = 1..N
            /\ \A i, j \in 1..N : i # j => res[i].rank # res[j].rank
            /\ \A i \in 1..N :
                   res[i].percentile.num * N
                       = (N - res[i].rank + 1) * 100 * res[i].percentile.den
            /\ \A i \in 1..N :
                   /\ res[i].rank = 1 => res[i].percentile.num = 100 * res[i].percentile.den
                   /\ res[i].rank = N => res[i].percentile.num * N = 100 * res[i].percentile.den

\* C18 witness: a formatted list of as many entries as the model allows
C18_Witness ==
    /\ call.op = "scores_to_results"
    /\ Len(call.results) = MaxNodes
    /\ call.results[MaxNodes].rank = MaxNodes
    /\ call.results[MaxNodes].percentile = Frac(100, MaxNodes)

\* C19: an algorithm name outside the enumeration ends as UnknownAlgorithm:
\* raised by the engine on the single path, recorded in the entry of the
\* name inside a batch.
C19_UnknownAlgorithm ==
    /\ (call.op = "calculate_centrality" /\ call.algorithm \notin CentralityType)
          => ("raised" \in DOMAIN call.out /\ call.out.raised = "UnknownAlgorithm")
    /\ (call.op = "loop_body" /\ call.algorithm_str \notin CentralityType)
          => ("error" \in DOMAIN call.entry /\ call.entry.error = "UnknownAlgorithm")

\* the payload names a node twice, or an edge names a node the payload
\* does not list
InvalidPayload(network) ==
    \/ Cardinality(Range(network.nodes)) # Len(network.nodes)
    \/ \E e \in Range(network.edges) :
          e[1] \notin Range(network.nodes) \/ e[2] \notin Range(network.nodes)

\* C20: the engine refuses a payload with a repeated node identifier or
\* with an edge to an unlisted node with InvalidGraph, and hands no graph
\* built from such a payload to an algorithm.
C20_InvalidGraphRefused ==
    (call.op = "calculate_centrality" /\ call.algorithm \in CentralityType
        /\ InvalidPayload(call.network))
      => /\ "raised" \in DOMAIN call.out
         /\ call.out.raised = "InvalidGraph"

\* C21: every reported density is 0 for at most one node, and otherwise
\* |E| / (|V|(|V|-1)) for a directed and |E| / (|V|(|V|-1)/2) for an
\* undirected graph; no report ends in an error.
C21_Density ==
    call.op \in {"calculate_density", "network_stats"} =>
        /\ "raised" \notin DOMAIN call.out
        /\ call.nodes <= 1 => call.out.num = 0
        /\ call.nodes > 1 =>
              call.out.num * call.nodes * (call.nodes - 1)
                  = (IF call.directed THEN 1 ELSE 2) * call.edges * call.out.den

\* C22: when the power iteration of eigenvector does not converge the scores
\* are those of Katz with attenuation 0.1, and when that computation fails
\* too the caller gets AlgorithmError; the failure of the power iteration
\* itself never reaches the caller.
C22_ConvergenceConverted ==
    (call.op = "algo_func" /\ call.algorithm = "eigenvector"
        /\ call.first = "PowerIterationFailedConvergence")
      => /\ call.second = "ok" =>
               /\ "scores" \in DOMAIN call.out
               /\ call.out.scores.by = "nx.katz_centrality"
               /\ call.out.scores.args.alpha = 1
         /\ call.second # "ok" =>
               /\ "raised" \in DOMAIN call.out
               /\ call.out.raised = "AlgorithmError"

\* C23: when the primary computation fails, subgraph gives what the degree
\* method gives for the same parameters, alpha what the Katz method gives
\* and communicability betweenness what the betweenness method gives; a
\* kind without a fallback raises the failure of its computation.
C23_DocumentedFallbacks ==
    (call.op = "algo_func" /\ call.first # "ok") =>
        /\ call.algorithm = "subgraph" =>
              call.out = engine_degree_centrality(call.params, call.second)
        /\ call.algorithm = "alpha" =>
              call.out = engine_katz_centrality(call.params, call.second)
        /\ call.algorithm = "communicability_betweenness" =>
              call.out = engine_betweenness_centrality(call.params, call.second)
        /\ call.algorithm \in {"degree", "betweenness", "closeness", "katz",
                               "pagerank", "bonacich_power", "hits_hubs",
                               "hits_authorities", "leverage", "harmonic"} =>
              call.out = [raised |-> call.first]

\* C23: a subgraph request whose matrix exponential failed and that
\* returned the scores of the non-normalized degree.
C23_Witness ==
    /\ call.op = "algo_func"
    /\ call.algorithm = "subgraph"
    /\ call.first = "Exception"
    /\ ~call.params.normalized
    /\ "scores" \in DOMAIN call.out
    /\ call.out.scores.by = "G.degree"

\* C24: for every payload the graph model accepts, single nodes and
\* self-loops included, the normalized degree scores are degree / (n - 1)
\* and lie between 0 and 1; the path a - b - c scores a 1/2, b 1, c 1/2.
C24_DegreeNormalized ==
    /\ LET path == [nodes |-> <<"a", "b", "c">>,
                    edges |-> << <<"a", "b">>, <<"b", "c">> >>]
           results == CentralityEngine_calculate_centrality(path, "degree").results
       IN  \A i \in 1..Len(results) :
              results[i].centrality_score.num * 2
                  = results[i].centrality_score.den
                        * (IF results[i].node_id = "b" THEN 2 ELSE 1)
    /\ (call.op = "calculate_centrality" /\ call.algorithm = "degree"
          /\ ~InvalidPayload(call.network))
        => \A i \in 1..Len(call.out.results) :
              LET score == call.out.results[i].centrality_score
                  n == Len(call.out.G.nodes)
              IN  /\ ~Greater(Frac(0, 1), score)
                  /\ ~Greater(score, Frac(1, 1))
                  /\ n > 1 => score.num * (n - 1)
                                  = degree(call.out.G, call.out.results[i].node_id)
                                        * score.den

\* C25: the algorithm listing holds one AlgorithmInfo for each of the 15
\* kinds and the information request for a kind gives the AlgorithmInfo of
\* that kind; neither ends in an error.
C25_AlgorithmInfo ==
    /\ call.op = "get_algorithm_info" =>
          /\ "raised" \notin DOMAIN call.out
          /\ call.out.name = call.algorithm
    /\ call.op = "get_available_algorithms" =>
          /\ "raised" \notin DOMAIN call.out
          /\ {i.name : i \in call.out.algorithms} = AllCentralityTypes
          /\ Cardinality(call.out.algorithms) = 15

\* C26: while one calculate request is inside the engine, every other
\* request can take its next step: a new request can be taken up, and one
\* that waits for the cache or for its response can go on.
C26_NotBlocking ==
    \A r \in Reqs, q \in Reqs :
        (r # q /\ creq[r].pc = "engine") =>
            ENABLED (\/ \E network \in CalcNetworks, algorithm \in CentralityType,
                          normalized \in BOOLEAN :
                           calculate_centrality(q, network, algorithm, normalized)
                     \/ CalcAfterGet(q)
                     \/ CalcAfterSet(q)
                     \/ CalcRespond(q))

\* C27: when the time limit strikes while a step of the loop is running,
\* that step is recorded as failed and the task stays in its loop, so that
\* the remaining steps run and the task completes.
C27_StepTimeCap ==
    [][(/\ worker.pc = "loop"
        /\ Len(worker.log) < Len(worker.msg.algorithms)
        /\ now' > now)
         => /\ worker'.pc = "loop"
            /\ worker'.log = Append(worker.log, FALSE)]_vars

\* C28: outside a close, at most one pool and at most one Redis client have
\* been made since the last close ended, and every call of get_pool or
\* get_redis that began and returned since then returned that object.
C28_SingleInitialisation ==
    \A k \in Kinds :
        ~conn.closing[k] =>
            /\ conn.made[k] - conn.base[k] <= 1
            /\ \A c \in Callers :
                  (/\ conn.task[c].pc = "returned"
                   /\ conn.task[c].kind = k
                   /\ conn.task[c].epoch = conn.epoch[k])
                    => /\ conn.made[k] = conn.base[k] + 1
                       /\ conn.task[c].ret = conn.made[k]

\* C29: the status request of every issued task, whatever the state of the
\* task, answers 200 with the record of task_id, status, result and progress.
C29_StatusAlwaysAnswered ==
    \A t \in issued :
        /\ get_task_status(t.id).code = 200
        /\ {"task_id", "status", "result", "progress"}
               \subseteq DOMAIN get_task_status(t.id).body

\* C30: no thread waits for the lock of the monitor while it holds that
\* lock itself.
C30_NoSelfDeadlock ==
    \A t \in Threads :
        (mon.th[t] # <<>> /\ Top(t).waiting) => mon.lock # t

====
